---------------------------- MODULE Spec2Model ----------------------------
(* VideoVault: the Express server (server/auth.ts, server/storage.ts, the   *)
(* route table registerRoutes, shared/schema.ts) as a state machine.        *)
(*                                                                          *)
(* The store is the two tables users and videos, the session store maps a   *)
(* session to the user id passport serialised into it.  A request occupies  *)
(* a slot of reqs between its awaits: every storage call is one SQL         *)
(* statement and one step, and steps of different requests interleave.      *)
(* last is what the latest step sent: a response, or nothing.               *)
(* detailOK and deleted count, per video, the detail reads answered 200 and *)
(* the deletes answered 204.                                                *)
EXTENDS Integers, Sequences, FiniteSets, TLC

VARIABLES users, videos, videoSeq, sessions, now, reqs, last, detailOK, deleted

vars == <<users, videos, videoSeq, sessions, now, reqs, last, detailOK, deleted>>

(* ------------------------------ bounds ---------------------------------- *)
\* concurrent requests in flight
NumReqs == 2
\* video rows ever inserted (ids are fresh uuids, never reused)
MaxVideos == 2
\* detail reads admitted per video
MaxViews == 2
\* timestamps handed out by the database clock
MaxClock == 4

Reqs == 1..NumReqs
VideoIds == 1..MaxVideos
Sessions == {"s0", "s1", "s2"}
Emails == {"a@x", "b@x"}
Passwords == {"pw"}

(* ------------------------------ values ---------------------------------- *)
\* SQL NULL / JSON null / JS undefined-or-null in a nullable column
NULL == "<null>"
\* a JSON value of a type the zod schema does not accept for its key
BAD == "<wrong type>"
\* a JSON key that is absent from a body
ABSENT == "<absent>"
T == "true"
F == "false"
\* no passport user in the session / no :id parameter
NoUser == 0
NoId == 0

(* --------------------------- shared/schema.ts --------------------------- *)
\* columns of videos that insertVideoSchema keeps (id, createdAt, updatedAt,
\* views are omitted)
InsertVideoKeys ==
  {"title", "description", "sourceUrl", "thumbnailUrl", "duration",
   "canPlay", "canShare", "canDownload"}

\* text(...).notNull() columns: a string is required by the zod schema
NotNullTextKeys == {"title", "sourceUrl"}
\* nullable text columns
NullableTextKeys == {"description", "thumbnailUrl", "duration"}
\* nullable boolean columns
BooleanKeys == {"canPlay", "canShare", "canDownload"}

\* the zod type of one key of insertVideoSchema accepts value v
ZodTypeOk(k, v) ==
  IF k \in NotNullTextKeys THEN v \notin {NULL, BAD, T, F}
  ELSE IF k \in NullableTextKeys THEN v \notin {BAD, T, F}
  ELSE v \in {T, F, NULL}

\* a table whose three flags all default to true
VideoDefaultAllTrue(k) ==
  CASE k \in {"canPlay", "canShare", "canDownload"} -> T
    [] k = "views" -> 0
    [] OTHER -> NULL

\* column defaults of the videos table for a column left out of an insert
VideoDefault(k) ==
  CASE k = "canPlay" -> T
    [] k = "canShare" -> T
    [] k = "canDownload" -> F
    [] k = "views" -> 0
    [] OTHER -> NULL

\* insertVideoSchema.parse(body): z.object strips unknown keys; every kept
\* key must have its type; title and sourceUrl are required.
\* Result: [ok |-> BOOLEAN, data |-> the parsed object]
ParseKeep(body) == [k \in (DOMAIN body) \cap InsertVideoKeys |-> body[k]]

\* an insert schema that does not omit views
insertVideoSchemaKeepViews(body) ==
  LET data == [k \in (DOMAIN body) \cap (InsertVideoKeys \cup {"views"}) |-> body[k]] IN
  [ok |-> /\ NotNullTextKeys \subseteq DOMAIN data
          /\ \A k \in (DOMAIN data) \cap InsertVideoKeys : ZodTypeOk(k, data[k]),
   data |-> data]

insertVideoSchemaParse(body) ==
  LET data == ParseKeep(body) IN
  [ok |-> /\ NotNullTextKeys \subseteq DOMAIN data
          /\ \A k \in DOMAIN data : ZodTypeOk(k, data[k]),
   data |-> data]

\* a schema that passes unknown keys through instead of stripping them
updateVideoSchemaPassthrough(body) ==
  [ok |-> \A k \in (DOMAIN body) \cap InsertVideoKeys : ZodTypeOk(k, body[k]),
   data |-> body]

\* an update schema that does not omit views
updateVideoSchemaKeepViews(body) ==
  LET data == [k \in (DOMAIN body) \cap (InsertVideoKeys \cup {"views"}) |-> body[k]] IN
  [ok |-> \A k \in (DOMAIN data) \cap InsertVideoKeys : ZodTypeOk(k, data[k]),
   data |-> data]

\* updateVideoSchema = insertVideoSchema.partial(): no key is required
updateVideoSchemaParse(body) ==
  LET data == ParseKeep(body) IN
  [ok |-> \A k \in DOMAIN data : ZodTypeOk(k, data[k]),
   data |-> data]

(* ---------------------------- server/auth.ts ---------------------------- *)
\* hashPassword: bcrypt.hash(password, salt)
hashPassword(password) == <<"bcrypt", password>>

\* comparePasswords: bcrypt.compare(supplied, stored)
comparePasswords(supplied, stored) == stored = <<"bcrypt", supplied>>

(* --------------------------- server/storage.ts -------------------------- *)
\* getUserByEmail(email): the id of the row, NoUser if there is none
getUserByEmail(email) ==
  IF \E u \in DOMAIN users : users[u].email = email
  THEN CHOOSE u \in DOMAIN users : users[u].email = email
  ELSE NoUser

\* passport.session(): deserializeUser reads the session's user from the store
\* (storage.getUser) on every request; the principal is that row, or none
Principal(s) ==
  IF sessions[s] # NoUser /\ sessions[s] \in DOMAIN users
  THEN sessions[s] ELSE NoUser

\* req.isAuthenticated()
isAuthenticated(p) == p # NoUser

RoleOf(p) == IF p = NoUser THEN "none" ELSE users[p].role


\* a gate that lets every request through
requireAuthOpen(p) == [next |-> TRUE, status |-> 0, message |-> ""]

\* requireAuth(req, res, next)
requireAuth(p) ==
  IF ~isAuthenticated(p)
  THEN [next |-> FALSE, status |-> 401, message |-> "Authentication required"]
  ELSE [next |-> TRUE, status |-> 0, message |-> ""]

\* a gate that only asks for a login
requireAdminAnyRole(p) ==
  IF ~isAuthenticated(p)
  THEN [next |-> FALSE, status |-> 403, message |-> "Admin access required"]
  ELSE [next |-> TRUE, status |-> 0, message |-> ""]

\* a gate that knows the administrator by a fixed email, not by the stored role
requireAdminByEmail(p) ==
  IF ~isAuthenticated(p) \/ users[p].email # "b@x"
  THEN [next |-> FALSE, status |-> 403, message |-> "Admin access required"]
  ELSE [next |-> TRUE, status |-> 0, message |-> ""]

\* requireAdmin(req, res, next)
requireAdmin(p) ==
  IF ~isAuthenticated(p) \/ users[p].role # "ADMIN"
  THEN [next |-> FALSE, status |-> 403, message |-> "Admin access required"]
  ELSE [next |-> TRUE, status |-> 0, message |-> ""]

\* an answer that hands out the stored row
UserJsonWholeRow(id, u) == [id |-> id] @@ u

\* the object the identity endpoints answer with
UserJson(id, u) ==
  [id |-> id, email |-> u.email, avatarUrl |-> u.avatarUrl, role |-> u.role,
   createdAt |-> u.createdAt]

\* JS falsiness of a body field: undefined, null or ""
Falsy(v) == v \in {ABSENT, NULL, ""}

(* ------------------------- requests and responses ----------------------- *)
Idle == [phase |-> "idle"]

\* a response: which request it answers, whether the route's gate let the
\* request through to the handler, and what was sent
Response(op, s, role, id, gate, status, message, body) ==
  [op |-> op, sess |-> s, role |-> role, id |-> id, gate |-> gate,
   status |-> status, message |-> message, body |-> body]

NoBody == <<>>

\* the gate (or the handler before its first await) answers: no slot is taken
Reply(resp) ==
  /\ last' = resp
  /\ UNCHANGED reqs

\* a step that sends nothing
Silent ==
  [op |-> "none", sess |-> "", role |-> "none", id |-> NoId,
   gate |-> "none", status |-> 0, message |-> "", body |-> NoBody]

\* the request goes on to its first storage call
Admit(r, slot) ==
  /\ reqs' = [reqs EXCEPT ![r] = slot]
  /\ last' = Silent

\* the handler answers after its last await
Finish(r, resp) ==
  /\ reqs' = [reqs EXCEPT ![r] = Idle]
  /\ last' = resp

\* statements that read the database clock and are still to run
ClockPhases == {"Register.getUserByEmail", "Register.createUser",
                "AdminPostVideo.createVideo", "AdminPutVideo.updateVideo"}
ClockPending == Cardinality({r \in Reqs : reqs[r].phase \in ClockPhases})
ClockLeft == now + ClockPending < MaxClock

(* ------------------------- identity endpoints --------------------------- *)
\* a field of req.body, undefined when the body does not have it
Field(body, k) == IF k \in DOMAIN body THEN body[k] ELSE ABSENT

\* POST /api/register, up to the first await:
\* const { email, password } = req.body
PostRegister(r, s, body) ==
    LET email == Field(body, "email")  password == Field(body, "password") IN
    /\ reqs[r].phase = "idle"
    /\ IF Falsy(email) \/ Falsy(password)
       THEN Reply([input |-> body] @@
                    Response("PostRegister", s, RoleOf(Principal(s)), NoId, "allowed",
                             400, "Email and password are required", NoBody))
       ELSE /\ ClockLeft
            /\ Admit(r, [phase |-> "Register.getUserByEmail", sess |-> s,
                         role |-> RoleOf(Principal(s)), body |-> body,
                         email |-> email, password |-> password])
    /\ UNCHANGED <<users, videos, videoSeq, sessions, now, detailOK, deleted>>

\* a handler that leaves the duplicate to the insert
PostRegisterCheckSkips(r) ==
  LET q == reqs[r] IN
  /\ q.phase = "Register.getUserByEmail"
  /\ reqs' = [reqs EXCEPT ![r].phase = "Register.createUser"]
  /\ last' = Silent
  /\ UNCHANGED <<users, videos, videoSeq, sessions, now, detailOK, deleted>>

\* const existingUser = await storage.getUserByEmail(email)
PostRegisterCheck(r) ==
  LET q == reqs[r] IN
  /\ q.phase = "Register.getUserByEmail"
  /\ IF getUserByEmail(q.email) # NoUser
     THEN Finish(r, [input |-> q.body] @@
                      Response("PostRegister", q.sess, q.role, NoId, "allowed",
                               400, "User with this email already exists", NoBody))
     ELSE /\ reqs' = [reqs EXCEPT ![r].phase = "Register.createUser"]
          /\ last' = Silent
  /\ UNCHANGED <<users, videos, videoSeq, sessions, now, detailOK, deleted>>

\* column defaults of the users table for a column left out of an insert
UserDefault(k) == IF k = "role" THEN "USER" ELSE NULL

\* storage.createUser: insert into users values(insertUser) returning *; a
\* column the object carries is inserted as given, a column it leaves out
\* takes its default (defaultNow() for createdAt)
createUser(id, insertUser, ts) ==
  [k \in {"email", "password", "avatarUrl", "role", "createdAt"} |->
     IF k \in DOMAIN insertUser THEN insertUser[k]
     ELSE IF k = "createdAt" THEN ts
     ELSE UserDefault(k)]

\* a handler that hands the whole body to the insert
RegisterValuesWholeBody(q) ==
  [k \in DOMAIN q.body |->
     IF k = "password" THEN hashPassword(q.password) ELSE q.body[k]]

\* the object the handler hands to storage.createUser:
\* { email, password: await hashPassword(password) }
RegisterValues(q) ==
  [email |-> q.email, password |-> hashPassword(q.password)]

\* a users table without the unique constraint on email
EmailTakenNever(email) == FALSE

\* users.email is unique: an insert of an email some row has violates it
EmailTaken(email) == getUserByEmail(email) # NoUser

\* const user = await storage.createUser(...); req.login(user, ...);
\* an insert that throws goes to next(error)
PostRegisterCreate(r) ==
  LET q == reqs[r]
      id == Cardinality(DOMAIN users) + 1
      user == createUser(id, RegisterValues(q), now + 1)
  IN
  /\ q.phase = "Register.createUser"
  /\ IF EmailTaken(q.email)
     THEN /\ Finish(r, [input |-> q.body] @@
                         Response("PostRegister", q.sess, q.role, NoId, "allowed",
                                  500, "Internal Server Error", NoBody))
          /\ UNCHANGED <<users, sessions, now>>
     ELSE /\ users' = (id :> user) @@ users
          /\ now' = now + 1
          /\ sessions' = [sessions EXCEPT ![q.sess] = id]
          /\ Finish(r, [input |-> q.body] @@
                         Response("PostRegister", q.sess, q.role, NoId, "allowed",
                                  201, "", UserJson(id, user)))
  /\ UNCHANGED <<videos, videoSeq, detailOK, deleted>>

\* the LocalStrategy verify callback: done(null, user), or done(null, false)
\* when no user has the email or the password does not match
verify(email, password) ==
  LET u == getUserByEmail(email) IN
  IF u = NoUser \/ ~comparePasswords(password, users[u].password)
  THEN NoUser ELSE u

\* a login that tells an unknown email from a wrong password
LoginAnswerNamesCause(email, password) ==
  LET u == verify(email, password) IN
  IF getUserByEmail(email) = NoUser
  THEN [status |-> 404, message |-> "User not found", body |-> NoBody]
  ELSE IF u = NoUser
  THEN [status |-> 401, message |-> "Unauthorized", body |-> NoBody]
  ELSE [status |-> 200, message |-> "", body |-> UserJson(u, users[u])]

\* what POST /api/login sends: passport.authenticate("local") answers 401
\* when verify reports false, otherwise the handler answers the user
LoginAnswer(email, password) ==
  LET u == verify(email, password) IN
  IF u = NoUser
  THEN [status |-> 401, message |-> "Unauthorized", body |-> NoBody]
  ELSE [status |-> 200, message |-> "", body |-> UserJson(u, users[u])]

\* a login that drops the session's user when it fails
PostLoginForgets(r, s, email, password) ==
    LET u == verify(email, password)  a == LoginAnswer(email, password) IN
    /\ reqs[r].phase = "idle"
    /\ sessions' = [sessions EXCEPT ![s] = u]
    /\ Reply([input |-> [email |-> email, password |-> password]] @@
               Response("PostLogin", s, RoleOf(Principal(s)), NoId,
                        IF u = NoUser THEN "denied" ELSE "allowed",
                        a.status, a.message, a.body))
    /\ UNCHANGED <<users, videos, videoSeq, now, detailOK, deleted>>

\* POST /api/login: passport.authenticate("local") runs the LocalStrategy
\* verify callback, then req.login binds the session to the user's id
PostLogin(r, s, email, password) ==
    LET u == verify(email, password)  a == LoginAnswer(email, password) IN
    /\ reqs[r].phase = "idle"
    /\ IF u = NoUser
       THEN /\ Reply([input |-> [email |-> email, password |-> password]] @@
                       Response("PostLogin", s, RoleOf(Principal(s)), NoId, "denied",
                                a.status, a.message, a.body))
            /\ UNCHANGED sessions
       ELSE /\ sessions' = [sessions EXCEPT ![s] = u]
            /\ Reply([input |-> [email |-> email, password |-> password]] @@
                       Response("PostLogin", s, RoleOf(Principal(s)), NoId, "allowed",
                                a.status, a.message, a.body))
    /\ UNCHANGED <<users, videos, videoSeq, now, detailOK, deleted>>

\* a logout that answers 200 and leaves the session's user in place
PostLogoutKeeps(r, s) ==
    /\ reqs[r].phase = "idle"
    /\ Reply(Response("PostLogout", s, RoleOf(Principal(s)), NoId, "allowed",
                      200, "OK", NoBody))
    /\ UNCHANGED <<users, videos, videoSeq, sessions, now, detailOK, deleted>>

\* POST /api/logout: req.logout clears the session's user
PostLogout(r, s) ==
    /\ reqs[r].phase = "idle"
    /\ sessions' = [sessions EXCEPT ![s] = NoUser]
    /\ Reply(Response("PostLogout", s, RoleOf(Principal(s)), NoId, "allowed",
                      200, "OK", NoBody))
    /\ UNCHANGED <<users, videos, videoSeq, now, detailOK, deleted>>

\* GET /api/user
GetUser(r, s) ==
    LET p == Principal(s) IN
    /\ reqs[r].phase = "idle"
    /\ IF ~isAuthenticated(p)
       THEN Reply(Response("GetUser", s, "none", NoId, "denied",
                           401, "Unauthorized", NoBody))
       ELSE Reply(Response("GetUser", s, RoleOf(p), NoId, "allowed",
                           200, "", UserJson(p, users[p])))
    /\ UNCHANGED <<users, videos, videoSeq, sessions, now, detailOK, deleted>>

\* an account's role is edited out of band (no route changes it)
SetRole(u, role) ==
    /\ u \in DOMAIN users
    /\ users[u].role # role
    /\ users' = [users EXCEPT ![u].role = role]
    /\ last' = Silent
    /\ UNCHANGED <<videos, videoSeq, sessions, now, reqs, detailOK, deleted>>

(* ------------------------------ video rows ------------------------------ *)
\* a row of videos as storage returns it
VideoRow(id) == [id |-> id] @@ videos[id]

\* storage.getVideo(id): the row, or undefined
HasVideo(id) == id \in DOMAIN videos

\* storage.getVideos(): select ... order by created_at desc
RECURSIVE OrderDesc(_)
OrderDesc(ids) ==
  IF ids = {} THEN <<>>
  ELSE LET newest == CHOOSE v \in ids :
                       \A w \in ids : videos[w].createdAt <= videos[v].createdAt
       IN <<VideoRow(newest)>> \o OrderDesc(ids \ {newest})

getVideos == OrderDesc(DOMAIN videos)

\* the columns of videos other than the generated id
VideoColumns == InsertVideoKeys \cup {"views", "createdAt", "updatedAt"}

\* storage.createVideo(video): insert ... values(video) returning *;
\* a column the object carries is inserted as given, a column it leaves out
\* takes the table's default (defaultNow() for the two timestamps)
createVideo(video, ts) ==
  [k \in VideoColumns |->
     IF k \in DOMAIN video THEN video[k]
     ELSE IF k \in {"createdAt", "updatedAt"} THEN ts
     ELSE VideoDefault(k)]

\* an update that writes the whole row, defaults for what was not supplied
updateVideoReplace(old, video, ts) ==
  [k \in DOMAIN old |->
     IF k = "updatedAt" THEN ts
     ELSE IF k \in DOMAIN video THEN video[k]
     ELSE IF k \in InsertVideoKeys THEN VideoDefault(k)
     ELSE old[k]]

\* storage.updateVideo(id, video): update ... set({...video, updatedAt: new Date()})
updateVideo(old, video, ts) ==
  [k \in DOMAIN old |->
     IF k = "updatedAt" THEN ts
     ELSE IF k \in DOMAIN video THEN video[k]
     ELSE old[k]]

\* storage.incrementVideoViews(id): update videos set views = views + 1 where id = ...
incrementVideoViews(id) ==
  IF HasVideo(id)
  THEN [videos EXCEPT ![id].views = videos[id].views + 1]
  ELSE videos

\* storage.deleteVideo(id): the table without the row
deleteVideo(id) == [v \in (DOMAIN videos) \ {id} |-> videos[v]]

\* an avatar update that writes the row back with the default role
updateUserAvatarResetsRole(userId, avatarUrl) ==
  IF userId \in DOMAIN users
  THEN [users EXCEPT ![userId].avatarUrl = avatarUrl, ![userId].role = "USER"]
  ELSE users

\* storage.updateUserAvatar(userId, avatarUrl)
updateUserAvatar(userId, avatarUrl) ==
  IF userId \in DOMAIN users
  THEN [users EXCEPT ![userId].avatarUrl = avatarUrl]
  ELSE users

\* a list view that answers with the stored row
PublicVideoWholeRow(video) == video

\* the object GET /api/videos answers with for one row
PublicVideo(video) ==
  [id |-> video.id, title |-> video.title, description |-> video.description,
   thumbnailUrl |-> video.thumbnailUrl, duration |-> video.duration,
   views |-> video.views, canPlay |-> video.canPlay, canShare |-> video.canShare,
   canDownload |-> video.canDownload, createdAt |-> video.createdAt]

\* a detail view that hands out sourceUrl only for a playable video
DetailVideoGated(video) ==
  [id |-> video.id, title |-> video.title, description |-> video.description,
   sourceUrl |-> IF video.canPlay = T THEN video.sourceUrl ELSE NULL,
   thumbnailUrl |-> video.thumbnailUrl, duration |-> video.duration,
   views |-> video.views + 1, canPlay |-> video.canPlay,
   canShare |-> video.canShare, canDownload |-> video.canDownload,
   createdAt |-> video.createdAt]

\* the object GET /api/videos/:id answers with, from the row it looked up
DetailVideo(video) ==
  [id |-> video.id, title |-> video.title, description |-> video.description,
   sourceUrl |-> video.sourceUrl,
   thumbnailUrl |-> video.thumbnailUrl, duration |-> video.duration,
   views |-> video.views + 1, canPlay |-> video.canPlay,
   canShare |-> video.canShare, canDownload |-> video.canDownload,
   createdAt |-> video.createdAt]

\* JS truthiness of a nullable boolean column
Truthy(v) == v = T

(* ------------------------------ request inputs -------------------------- *)
EmptyBody == [k \in {} |-> NULL]

\* bodies sent to POST /api/admin/videos
CreateBodies ==
  { [title |-> "T1", sourceUrl |-> "http://x"],
    [title |-> "T2", sourceUrl |-> "http://y", description |-> "D",
     canPlay |-> F, canDownload |-> T, views |-> 7, id |-> 9],
    [title |-> "T1"],
    [title |-> BAD, sourceUrl |-> "http://x"] }

\* bodies sent to PUT /api/admin/videos/:id
UpdateBodies ==
  { EmptyBody,
    [title |-> "New"],
    [description |-> NULL, canDownload |-> T],
    [title |-> "New", canDownload |-> NULL, views |-> 7, createdAt |-> 0, id |-> 9],
    [canPlay |-> BAD] }

\* the file part of an avatar upload, as multer stores it
Uploads == {ABSENT, "f1"}

\* detail reads of a video that are past the gate and have not answered
DetailPending(id) ==
  Cardinality({r \in Reqs : /\ reqs[r].phase \in {"GetVideo.getVideo",
                                                  "GetVideo.incrementVideoViews"}
                            /\ reqs[r].id = id})

ViewsLeft(id) ==
  (IF HasVideo(id) THEN videos[id].views ELSE 0) + DetailPending(id) < MaxViews


(* ------------------------- routes for users ----------------------------- *)
Frame == UNCHANGED <<users, videos, videoSeq, sessions, now, detailOK, deleted>>

\* what the gate of a route answers to a principal it stops
Stopped(op, s, id, g) ==
  Reply(Response(op, s, RoleOf(Principal(s)), id, "denied", g.status, g.message, NoBody))

\* POST /api/me/avatar: requireAuth, upload.single("avatar"), up to the first await
PostAvatar(r, s, file) ==
    LET p == Principal(s)  g == requireAuth(p) IN
    /\ reqs[r].phase = "idle"
    /\ IF ~g.next THEN Stopped("PostAvatar", s, NoId, g)
       ELSE IF file = ABSENT
       THEN Reply(Response("PostAvatar", s, RoleOf(p), NoId, "allowed",
                           400, "No file uploaded", NoBody))
       ELSE Admit(r, [phase |-> "PostAvatar.updateUserAvatar", sess |-> s,
                      role |-> RoleOf(p), user |-> p, file |-> file])
    /\ Frame

\* await storage.updateUserAvatar(req.user!.id, avatarUrl); res.json({ avatarUrl })
PostAvatarUpdate(r) ==
  LET q == reqs[r]  avatarUrl == <<"/uploads/", q.file>> IN
  /\ q.phase = "PostAvatar.updateUserAvatar"
  /\ users' = updateUserAvatar(q.user, avatarUrl)
  /\ Finish(r, Response("PostAvatar", q.sess, q.role, NoId, "allowed",
                        200, "", [avatarUrl |-> avatarUrl]))
  /\ UNCHANGED <<videos, videoSeq, sessions, now, detailOK, deleted>>

\* GET /api/videos: requireAuth
GetVideos(r, s) ==
    LET p == Principal(s)  g == requireAuth(p) IN
    /\ reqs[r].phase = "idle"
    /\ IF ~g.next THEN Stopped("GetVideos", s, NoId, g)
       ELSE Admit(r, [phase |-> "GetVideos.getVideos", sess |-> s, role |-> RoleOf(p)])
    /\ Frame

\* the list view of the rows storage.getVideos() returned
publicVideos(rows) == [i \in DOMAIN rows |-> PublicVideo(rows[i])]

\* const videos = await storage.getVideos(); res.json(publicVideos)
GetVideosList(r) ==
  LET q == reqs[r] IN
  /\ q.phase = "GetVideos.getVideos"
  /\ Finish(r, Response("GetVideos", q.sess, q.role, NoId, "allowed",
                        200, "", publicVideos(getVideos)))
  /\ Frame

\* a detail route that counts the view before it asks for a login
GetVideoCountFirst(r, s, id) ==
    LET p == Principal(s)  g == requireAuth(p) IN
    /\ reqs[r].phase = "idle"
    /\ ViewsLeft(id)
    /\ IF ~g.next
       THEN /\ Stopped("GetVideo", s, id, g)
            /\ videos' = incrementVideoViews(id)
       ELSE /\ Admit(r, [phase |-> "GetVideo.getVideo", sess |-> s,
                         role |-> RoleOf(p), id |-> id])
            /\ UNCHANGED videos
    /\ UNCHANGED <<users, videoSeq, sessions, now, detailOK, deleted>>

\* GET /api/videos/:id: requireAuth
GetVideo(r, s, id) ==
    LET p == Principal(s)  g == requireAuth(p) IN
    /\ reqs[r].phase = "idle"
    /\ IF ~g.next THEN Stopped("GetVideo", s, id, g)
       ELSE /\ ViewsLeft(id)
            /\ Admit(r, [phase |-> "GetVideo.getVideo", sess |-> s,
                         role |-> RoleOf(p), id |-> id])
    /\ Frame

\* const video = await storage.getVideo(req.params.id)
GetVideoLookup(r) ==
  LET q == reqs[r] IN
  /\ q.phase = "GetVideo.getVideo"
  /\ IF ~HasVideo(q.id)
     THEN Finish(r, Response("GetVideo", q.sess, q.role, q.id, "allowed",
                             404, "Video not found", NoBody))
     ELSE /\ reqs' = [reqs EXCEPT ![r] =
                        [phase |-> "GetVideo.incrementVideoViews", sess |-> q.sess,
                         role |-> q.role, id |-> q.id, video |-> VideoRow(q.id)]]
          /\ last' = Silent
  /\ Frame

\* a handler that writes back the count it read (fetch, then write)
GetVideoIncrementStale(r) ==
  LET q == reqs[r] IN
  /\ q.phase = "GetVideo.incrementVideoViews"
  /\ videos' = IF HasVideo(q.id)
               THEN [videos EXCEPT ![q.id].views = q.video.views + 1]
               ELSE videos
  /\ detailOK' = [detailOK EXCEPT ![q.id] = @ + 1]
  /\ Finish(r, Response("GetVideo", q.sess, q.role, q.id, "allowed",
                        200, "", DetailVideo(q.video)))
  /\ UNCHANGED <<users, videoSeq, sessions, now, deleted>>

\* a handler that writes back the row it read, with one more view
GetVideoIncrementWholeRow(r) ==
  LET q == reqs[r] IN
  /\ q.phase = "GetVideo.incrementVideoViews"
  /\ videos' = IF HasVideo(q.id)
               THEN [videos EXCEPT ![q.id] =
                       [k \in DOMAIN videos[q.id] |->
                          IF k = "views" THEN videos[q.id].views + 1 ELSE q.video[k]]]
               ELSE videos
  /\ detailOK' = [detailOK EXCEPT ![q.id] = @ + 1]
  /\ Finish(r, Response("GetVideo", q.sess, q.role, q.id, "allowed",
                        200, "", DetailVideo(q.video)))
  /\ UNCHANGED <<users, videoSeq, sessions, now, deleted>>

\* await storage.incrementVideoViews(video.id); res.json({...})
GetVideoIncrement(r) ==
  LET q == reqs[r] IN
  /\ q.phase = "GetVideo.incrementVideoViews"
  /\ videos' = incrementVideoViews(q.video.id)
  /\ detailOK' = [detailOK EXCEPT ![q.id] = @ + 1]
  /\ Finish(r, Response("GetVideo", q.sess, q.role, q.id, "allowed",
                        200, "", DetailVideo(q.video)))
  /\ UNCHANGED <<users, videoSeq, sessions, now, deleted>>

\* GET /api/videos/:id/download: requireAuth
GetVideoDownload(r, s, id) ==
    LET p == Principal(s)  g == requireAuth(p) IN
    /\ reqs[r].phase = "idle"
    /\ IF ~g.next THEN Stopped("GetVideoDownload", s, id, g)
       ELSE Admit(r, [phase |-> "GetVideoDownload.getVideo", sess |-> s,
                      role |-> RoleOf(p), id |-> id])
    /\ Frame

\* a download handler that exempts administrators from canDownload
DownloadAnswerAdminExempt(q, video) ==
  IF ~Truthy(video.canDownload) /\ q.role # "ADMIN"
  THEN Response("GetVideoDownload", q.sess, q.role, q.id, "allowed",
                403, "Download not allowed for this video", NoBody)
  ELSE Response("GetVideoDownload", q.sess, q.role, q.id, "allowed",
                302, "", [location |-> video.sourceUrl])

\* what the download handler answers for the row it looked up
DownloadAnswer(q, video) ==
  IF ~Truthy(video.canDownload)
  THEN Response("GetVideoDownload", q.sess, q.role, q.id, "allowed",
                403, "Download not allowed for this video", NoBody)
  ELSE Response("GetVideoDownload", q.sess, q.role, q.id, "allowed",
                302, "", [location |-> video.sourceUrl])

\* const video = await storage.getVideo(req.params.id); ... res.redirect(video.sourceUrl)
GetVideoDownloadLookup(r) ==
  LET q == reqs[r] IN
  /\ q.phase = "GetVideoDownload.getVideo"
  /\ IF ~HasVideo(q.id)
     THEN Finish(r, Response("GetVideoDownload", q.sess, q.role, q.id, "allowed",
                             404, "Video not found", NoBody))
     ELSE Finish(r, DownloadAnswer(q, VideoRow(q.id)))
  /\ Frame

(* ------------------------------ admin routes ---------------------------- *)
\* GET /api/admin/videos: requireAdmin
AdminGetVideos(r, s) ==
    LET p == Principal(s)  g == requireAdmin(p) IN
    /\ reqs[r].phase = "idle"
    /\ IF ~g.next THEN Stopped("AdminGetVideos", s, NoId, g)
       ELSE Admit(r, [phase |-> "AdminGetVideos.getVideos", sess |-> s,
                      role |-> RoleOf(p)])
    /\ Frame

\* const videos = await storage.getVideos(); res.json(videos)
AdminGetVideosList(r) ==
  LET q == reqs[r] IN
  /\ q.phase = "AdminGetVideos.getVideos"
  /\ Finish(r, Response("AdminGetVideos", q.sess, q.role, NoId, "allowed",
                        200, "", getVideos))
  /\ Frame

\* POST /api/admin/videos: requireAdmin, insertVideoSchema.parse(req.body)
AdminPostVideo(r, s, body) ==
    LET p == Principal(s)  g == requireAdmin(p)
        videoData == insertVideoSchemaParse(body) IN
    /\ reqs[r].phase = "idle"
    /\ IF ~g.next THEN Stopped("AdminPostVideo", s, NoId, g)
       ELSE IF ~videoData.ok
       THEN Reply([input |-> body] @@
                    Response("AdminPostVideo", s, RoleOf(p), NoId, "allowed",
                             400, "Invalid video data", NoBody))
       ELSE /\ ClockLeft
            /\ videoSeq + Cardinality({x \in Reqs :
                  reqs[x].phase = "AdminPostVideo.createVideo"}) < MaxVideos
            /\ Admit(r, [phase |-> "AdminPostVideo.createVideo", sess |-> s,
                         role |-> RoleOf(p), body |-> body,
                         videoData |-> videoData.data])
    /\ Frame

\* const video = await storage.createVideo(videoData); res.status(201).json(video)
AdminPostVideoCreate(r) ==
  LET q == reqs[r]
      id == videoSeq + 1
      video == createVideo(q.videoData, now + 1) IN
  /\ q.phase = "AdminPostVideo.createVideo"
  /\ videos' = (id :> video) @@ videos
  /\ videoSeq' = id
  /\ now' = now + 1
  /\ Finish(r, [input |-> q.body] @@
                 Response("AdminPostVideo", q.sess, q.role, id, "allowed",
                          201, "", [id |-> id] @@ video))
  /\ UNCHANGED <<users, sessions, detailOK, deleted>>

\* PUT /api/admin/videos/:id: requireAdmin, updateVideoSchema.parse(req.body)
AdminPutVideo(r, s, id, body) ==
    LET p == Principal(s)  g == requireAdmin(p)
        videoData == updateVideoSchemaParse(body) IN
    /\ reqs[r].phase = "idle"
    /\ IF ~g.next THEN Stopped("AdminPutVideo", s, id, g)
       ELSE IF ~videoData.ok
       THEN Reply(Response("AdminPutVideo", s, RoleOf(p), id, "allowed",
                           400, "Invalid video data", NoBody))
       ELSE /\ ClockLeft
            /\ Admit(r, [phase |-> "AdminPutVideo.updateVideo", sess |-> s,
                         role |-> RoleOf(p), id |-> id, body |-> body,
                         videoData |-> videoData.data])
    /\ Frame

\* const video = await storage.updateVideo(req.params.id, videoData)
AdminPutVideoUpdate(r) ==
  LET q == reqs[r] IN
  /\ q.phase = "AdminPutVideo.updateVideo"
  /\ IF ~HasVideo(q.id)
     THEN /\ Finish(r, Response("AdminPutVideo", q.sess, q.role, q.id, "allowed",
                                404, "Video not found", NoBody))
          /\ UNCHANGED <<videos, now>>
     ELSE LET video == updateVideo(videos[q.id], q.videoData, now + 1) IN
          /\ videos' = [videos EXCEPT ![q.id] = video]
          /\ now' = now + 1
          /\ Finish(r, [input |-> q.body] @@
                         Response("AdminPutVideo", q.sess, q.role, q.id, "allowed",
                                  200, "", [id |-> q.id] @@ video))
  /\ UNCHANGED <<users, videoSeq, sessions, detailOK, deleted>>

\* DELETE /api/admin/videos/:id: requireAdmin
AdminDeleteVideo(r, s, id) ==
    LET p == Principal(s)  g == requireAdmin(p) IN
    /\ reqs[r].phase = "idle"
    /\ IF ~g.next THEN Stopped("AdminDeleteVideo", s, id, g)
       ELSE Admit(r, [phase |-> "AdminDeleteVideo.deleteVideo", sess |-> s,
                      role |-> RoleOf(p), id |-> id])
    /\ Frame

\* a delete handler that answers 204 whatever the statement removed
AdminDeleteVideoDeleteAlways(r) ==
  LET q == reqs[r] IN
  /\ q.phase = "AdminDeleteVideo.deleteVideo"
  /\ videos' = deleteVideo(q.id)
  /\ Finish(r, Response("AdminDeleteVideo", q.sess, q.role, q.id, "allowed",
                        204, "", NoBody))
  /\ deleted' = [deleted EXCEPT ![q.id] = @ + 1]
  /\ UNCHANGED <<users, videoSeq, sessions, now, detailOK>>

\* const deleted = await storage.deleteVideo(req.params.id)
AdminDeleteVideoDelete(r) ==
  LET q == reqs[r] IN
  /\ q.phase = "AdminDeleteVideo.deleteVideo"
  /\ videos' = deleteVideo(q.id)
  /\ IF ~HasVideo(q.id)
     THEN /\ Finish(r, Response("AdminDeleteVideo", q.sess, q.role, q.id, "allowed",
                                404, "Video not found", NoBody))
          /\ UNCHANGED deleted
     ELSE /\ Finish(r, Response("AdminDeleteVideo", q.sess, q.role, q.id, "allowed",
                                204, "", NoBody))
          /\ deleted' = [deleted EXCEPT ![q.id] = @ + 1]
  /\ UNCHANGED <<users, videoSeq, sessions, now, detailOK>>

\* GET /api/admin/stats: requireAdmin
AdminGetStats(r, s) ==
    LET p == Principal(s)  g == requireAdmin(p) IN
    /\ reqs[r].phase = "idle"
    /\ IF ~g.next THEN Stopped("AdminGetStats", s, NoId, g)
       ELSE Admit(r, [phase |-> "AdminGetStats.getVideos", sess |-> s,
                      role |-> RoleOf(p)])
    /\ Frame

\* a total that counts the rows that were viewed
totalViewsViewed(rows) == Len(SelectSeq(rows, LAMBDA row : row.views > 0))

\* videos.reduce((sum, video) => sum + (video.views || 0), 0)
RECURSIVE totalViews(_)
totalViews(rows) ==
  IF rows = <<>> THEN 0 ELSE Head(rows).views + totalViews(Tail(rows))

\* const videos = await storage.getVideos(); res.json({ totalVideos, totalUsers, totalViews })
AdminGetStatsCount(r) ==
  LET q == reqs[r]  rows == getVideos IN
  /\ q.phase = "AdminGetStats.getVideos"
  /\ Finish(r, Response("AdminGetStats", q.sess, q.role, NoId, "allowed", 200, "",
                        [totalVideos |-> Len(rows), totalUsers |-> 1249,
                         totalViews |-> totalViews(rows)]))
  /\ Frame

(* ------------------------------ the server ------------------------------ *)
\* the server after construction: empty tables, no session bound
InitServer ==
  /\ users = [u \in {} |-> NULL]
  /\ videos = [v \in {} |-> NULL]
  /\ videoSeq = 0
  /\ sessions = [s \in Sessions |-> NoUser]
  /\ now = 0
  /\ reqs = [r \in Reqs |-> Idle]
  /\ last = Silent
  /\ detailOK = [v \in VideoIds |-> 0]
  /\ deleted = [v \in VideoIds |-> 0]

\* the accounts of the catalog runs: a@x registered and logged in on s1,
\* b@x registered, promoted to ADMIN out of band and logged in on s2,
\* s0 anonymous; the catalog is empty
Init ==
  /\ users = (1 :> createUser(1, [email |-> "a@x", password |-> hashPassword("pw")], 1))
             @@ (2 :> [createUser(2, [email |-> "b@x",
                                     password |-> hashPassword("pw")], 2)
                       EXCEPT !.role = "ADMIN"])
  /\ videos = [v \in {} |-> NULL]
  /\ videoSeq = 0
  /\ sessions = [s \in Sessions |-> CASE s = "s1" -> 1 [] s = "s2" -> 2 [] OTHER -> NoUser]
  /\ now = 2
  /\ reqs = [r \in Reqs |-> Idle]
  /\ last = Silent
  /\ detailOK = [v \in VideoIds |-> 0]
  /\ deleted = [v \in VideoIds |-> 0]

\* requests handled one at a time
Serial == {1}

\* the video routes, one request at a time, for both logged-in principals and
\* every body
\* the sessions of a@x (USER) and b@x (ADMIN)
LoggedIn == {"s1", "s2"}

Next ==
  \/ \E r \in Serial, s \in LoggedIn : GetVideos(r, s)
  \/ \E r \in Serial : GetVideosList(r)
  \/ \E r \in Serial, s \in LoggedIn, id \in VideoIds : GetVideo(r, s, id)
  \/ \E r \in Serial : GetVideoLookup(r)
  \/ \E r \in Serial : GetVideoIncrement(r)
  \/ \E r \in Serial, s \in LoggedIn, id \in VideoIds : GetVideoDownload(r, s, id)
  \/ \E r \in Serial : GetVideoDownloadLookup(r)
  \/ \E r \in Serial, s \in LoggedIn : AdminGetVideos(r, s)
  \/ \E r \in Serial : AdminGetVideosList(r)
  \/ \E r \in Serial, s \in LoggedIn, body \in CreateBodies : AdminPostVideo(r, s, body)
  \/ \E r \in Serial : AdminPostVideoCreate(r)
  \/ \E r \in Serial, s \in LoggedIn, id \in VideoIds, body \in UpdateBodies :
       AdminPutVideo(r, s, id, body)
  \/ \E r \in Serial : AdminPutVideoUpdate(r)
  \/ \E r \in Serial, s \in LoggedIn, id \in VideoIds : AdminDeleteVideo(r, s, id)
  \/ \E r \in Serial : AdminDeleteVideoDelete(r)
  \/ \E r \in Serial, s \in LoggedIn : AdminGetStats(r, s)
  \/ \E r \in Serial : AdminGetStatsCount(r)

Spec == Init /\ [][Next]_vars

\* every gated route, one request at a time, with an accepted and a rejected
\* body each
GateIds == {1}
GateCreates == {[title |-> "T1", sourceUrl |-> "http://x"], [title |-> "T1"]}
GateUpdates == {[title |-> "New"], [canPlay |-> BAD]}

NextGate ==
  \/ \E r \in Serial, s \in Sessions, file \in Uploads : PostAvatar(r, s, file)
  \/ \E r \in Serial : PostAvatarUpdate(r)
  \/ \E r \in Serial, s \in Sessions : GetVideos(r, s)
  \/ \E r \in Serial : GetVideosList(r)
  \/ \E r \in Serial, s \in Sessions, id \in GateIds : GetVideo(r, s, id)
  \/ \E r \in Serial : GetVideoLookup(r)
  \/ \E r \in Serial : GetVideoIncrement(r)
  \/ \E r \in Serial, s \in Sessions, id \in GateIds : GetVideoDownload(r, s, id)
  \/ \E r \in Serial : GetVideoDownloadLookup(r)
  \/ \E r \in Serial, s \in Sessions : AdminGetVideos(r, s)
  \/ \E r \in Serial : AdminGetVideosList(r)
  \/ \E r \in Serial, s \in Sessions, body \in GateCreates : AdminPostVideo(r, s, body)
  \/ \E r \in Serial : AdminPostVideoCreate(r)
  \/ \E r \in Serial, s \in Sessions, id \in GateIds, body \in GateUpdates :
       AdminPutVideo(r, s, id, body)
  \/ \E r \in Serial : AdminPutVideoUpdate(r)
  \/ \E r \in Serial, s \in Sessions, id \in GateIds : AdminDeleteVideo(r, s, id)
  \/ \E r \in Serial : AdminDeleteVideoDelete(r)
  \/ \E r \in Serial, s \in Sessions : AdminGetStats(r, s)
  \/ \E r \in Serial : AdminGetStatsCount(r)

SpecGate == Init /\ [][NextGate]_vars

\* the video a race is about, and the requests that race on it
RaceIds == {1}
RaceCreate == [title |-> "T1", sourceUrl |-> "http://x"]
RaceUpdate == [title |-> "New"]

\* detail reads, updates and deletes of one video, interleaved at their awaits
NextRace ==
  \/ \E r \in Reqs : AdminPostVideo(r, "s2", RaceCreate)
  \/ \E r \in Reqs : AdminPostVideoCreate(r)
  \/ \E r \in Reqs, s \in {"s1", "s2"}, id \in RaceIds : GetVideo(r, s, id)
  \/ \E r \in Reqs : GetVideoLookup(r)
  \/ \E r \in Reqs : GetVideoIncrement(r)
  \/ \E r \in Reqs, id \in RaceIds : AdminPutVideo(r, "s2", id, RaceUpdate)
  \/ \E r \in Reqs : AdminPutVideoUpdate(r)
  \/ \E r \in Reqs, id \in RaceIds : AdminDeleteVideo(r, "s2", id)
  \/ \E r \in Reqs : AdminDeleteVideoDelete(r)

SpecRace == Init /\ [][NextRace]_vars

\* bodies sent to POST /api/admin/videos in the creation runs: title or
\* sourceUrl missing, empty or null, flags given or left out, a views value
CreateInputs ==
  { [title |-> "T1", sourceUrl |-> "http://x"],
    [title |-> "T2", sourceUrl |-> "http://y", canPlay |-> F, canShare |-> NULL,
     canDownload |-> T, views |-> 7],
    [sourceUrl |-> "http://x"],
    [title |-> "", sourceUrl |-> "http://x"],
    [title |-> NULL, sourceUrl |-> "http://x"],
    [title |-> "T1"],
    [title |-> "T1", sourceUrl |-> ""] }

\* creations, admin lists and deletes, one request at a time
NextCreate ==
  \/ \E r \in Serial, s \in LoggedIn, body \in CreateInputs : AdminPostVideo(r, s, body)
  \/ \E r \in Serial : AdminPostVideoCreate(r)
  \/ \E r \in Serial : AdminGetVideos(r, "s2")
  \/ \E r \in Serial : AdminGetVideosList(r)
  \/ \E r \in Serial, id \in VideoIds : AdminDeleteVideo(r, "s2", id)
  \/ \E r \in Serial : AdminDeleteVideoDelete(r)

SpecCreate == Init /\ [][NextCreate]_vars

\* bodies sent to POST /api/register: a field missing or empty, a role
RegisterBodies ==
  { [email |-> "a@x", password |-> "pw"],
    [email |-> "b@x", password |-> "pw"],
    [email |-> "b@x", password |-> "pw", role |-> "ADMIN"],
    [password |-> "pw"],
    [email |-> "a@x", password |-> ""] }

\* the identity endpoints and the out-of-band role edit, from the empty server
\* the sessions the identity requests arrive on
IdentitySessions == {"s1", "s2"}

NextIdentity ==
  \/ \E r \in Reqs, s \in IdentitySessions, body \in RegisterBodies :
       PostRegister(r, s, body)
  \/ \E r \in Reqs : PostRegisterCheck(r)
  \/ \E r \in Reqs : PostRegisterCreate(r)
  \/ \E r \in Reqs, s \in IdentitySessions, email \in Emails,
        password \in Passwords \cup {"wrong"} : PostLogin(r, s, email, password)
  \/ \E r \in Reqs, s \in IdentitySessions : PostLogout(r, s)
  \/ \E r \in Reqs, s \in IdentitySessions : GetUser(r, s)
  \/ \E u \in 1..Cardinality(Emails), role \in {"USER", "ADMIN"} : SetRole(u, role)

SpecIdentity == InitServer /\ [][NextIdentity]_vars

\* registrations racing for two emails on two sessions, from the empty
\* server, with the session's user read back by GET /api/user
RaceRegisters ==
  { [email |-> "a@x", password |-> "pw"],
    [email |-> "b@x", password |-> "pw", role |-> "ADMIN"],
    [password |-> "pw"] }

NextRegister ==
  \/ \E r \in Reqs, s \in IdentitySessions, body \in RaceRegisters :
       PostRegister(r, s, body)
  \/ \E r \in Reqs : PostRegisterCheck(r)
  \/ \E r \in Reqs : PostRegisterCreate(r)
  \/ \E r \in Reqs, s \in IdentitySessions : GetUser(r, s)

SpecRegister == InitServer /\ [][NextRegister]_vars

\* logins, logouts and session reads on the three sessions of the catalog
\* runs, one request at a time; c@x is nobody's email
LoginEmails == Emails \cup {"c@x"}
LoginPasswords == Passwords \cup {"wrong"}

NextLogin ==
  \/ \E r \in Serial, s \in Sessions, email \in LoginEmails,
        password \in LoginPasswords : PostLogin(r, s, email, password)
  \/ \E r \in Serial, s \in Sessions : PostLogout(r, s)
  \/ \E r \in Serial, s \in Sessions : GetUser(r, s)

SpecLogin == Init /\ [][NextLogin]_vars

\* sessions over their life: registration of a third account, logins,
\* logouts, and requests to an authenticated and to an admin route, one
\* request at a time
SessionRegister == [email |-> "c@x", password |-> "pw"]

NextSession ==
  \/ \E r \in Serial, s \in Sessions : PostRegister(r, s, SessionRegister)
  \/ \E r \in Serial : PostRegisterCheck(r)
  \/ \E r \in Serial : PostRegisterCreate(r)
  \/ \E r \in Serial, s \in Sessions, email \in LoginEmails,
        password \in LoginPasswords : PostLogin(r, s, email, password)
  \/ \E r \in Serial, s \in Sessions : PostLogout(r, s)
  \/ \E r \in Serial, s \in Sessions : GetUser(r, s)
  \/ \E r \in Serial, s \in Sessions : GetVideos(r, s)
  \/ \E r \in Serial : GetVideosList(r)
  \/ \E r \in Serial, s \in Sessions : AdminGetStats(r, s)
  \/ \E r \in Serial : AdminGetStatsCount(r)

SpecSession == Init /\ [][NextSession]_vars

\* every route of the server, one request at a time: the gated routes on
\* the three sessions, the identity endpoints on the session that starts
\* without a user
Visitor == "s0"

NextUsers ==
  \/ NextGate
  \/ \E r \in Serial : PostRegister(r, Visitor, SessionRegister)
  \/ \E r \in Serial : PostRegisterCheck(r)
  \/ \E r \in Serial : PostRegisterCreate(r)
  \/ \E r \in Serial, email \in Emails, password \in LoginPasswords :
       PostLogin(r, Visitor, email, password)
  \/ \E r \in Serial : PostLogout(r, Visitor)
  \/ \E r \in Serial : GetUser(r, Visitor)

SpecUsers == Init /\ [][NextUsers]_vars

\* one video that may be neither played nor downloaded, and the requests
\* that read and update it, interleaved at their awaits
ViewsCreate == [title |-> "T1", sourceUrl |-> "http://x", canPlay |-> F]
ViewsUpdate == [title |-> "New", views |-> 0]

NextViews ==
  \/ \E r \in Reqs : AdminPostVideo(r, "s2", ViewsCreate)
  \/ \E r \in Reqs : AdminPostVideoCreate(r)
  \/ \E r \in Reqs, s \in LoggedIn, id \in RaceIds : GetVideo(r, s, id)
  \/ \E r \in Reqs : GetVideoLookup(r)
  \/ \E r \in Reqs : GetVideoIncrement(r)
  \/ \E r \in Reqs, id \in RaceIds : AdminPutVideo(r, "s2", id, ViewsUpdate)
  \/ \E r \in Reqs : AdminPutVideoUpdate(r)
  \/ \E r \in Reqs, id \in RaceIds : GetVideoDownload(r, "s1", id)
  \/ \E r \in Reqs : GetVideoDownloadLookup(r)
  \/ \E r \in Reqs : GetVideos(r, "s1")
  \/ \E r \in Reqs : GetVideosList(r)

SpecViews == Init /\ [][NextViews]_vars

\* the two logged-in sessions of the catalog runs, with no login or logout,
\* while the roles of their users are edited out of band
NextRole ==
  \/ \E u \in {1, 2}, role \in {"USER", "ADMIN"} : SetRole(u, role)
  \/ \E r \in Serial, s \in LoggedIn : GetVideos(r, s)
  \/ \E r \in Serial : GetVideosList(r)
  \/ \E r \in Serial, s \in LoggedIn : AdminGetVideos(r, s)
  \/ \E r \in Serial : AdminGetVideosList(r)
  \/ \E r \in Serial, s \in LoggedIn : AdminPostVideo(r, s, RaceCreate)
  \/ \E r \in Serial : AdminPostVideoCreate(r)
  \/ \E r \in Serial, s \in LoggedIn : AdminGetStats(r, s)
  \/ \E r \in Serial : AdminGetStatsCount(r)

SpecRole == Init /\ [][NextRole]_vars

(* ------------------------------ properties ------------------------------ *)
AdminOps == {"AdminGetVideos", "AdminPostVideo", "AdminPutVideo",
             "AdminDeleteVideo", "AdminGetStats"}
AdminPhases == {"AdminGetVideos.getVideos", "AdminPostVideo.createVideo",
                "AdminPutVideo.updateVideo", "AdminDeleteVideo.deleteVideo",
                "AdminGetStats.getVideos"}
AuthOps == {"GetVideos", "GetVideo", "GetVideoDownload", "PostAvatar"}
AuthPhases == {"GetVideos.getVideos", "GetVideo.getVideo",
               "GetVideo.incrementVideoViews", "GetVideoDownload.getVideo",
               "PostAvatar.updateUserAvatar"}

\* C1: on every admin route a request of a principal with role USER is
\* answered 403 by the gate and no handler runs for it; a request of a
\* principal with role ADMIN passes the gate, and only such requests are ever
\* inside an admin handler.
C1_AdminGate ==
  /\ (last.op \in AdminOps /\ last.role = "USER")
       => (last.gate = "denied" /\ last.status = 403)
  /\ (last.op \in AdminOps /\ last.role = "ADMIN")
       => (last.gate = "allowed" /\ last.status \notin {401, 403})
  /\ \A r \in Reqs : reqs[r].phase \in AdminPhases => reqs[r].role = "ADMIN"

\* a USER was just refused on an admin route
C1_Witness ==
  last.op = "AdminGetVideos" /\ last.role = "USER" /\ last.status = 403

\* C2: on every admin route a request without a principal is answered with
\* the Unauthenticated kind (401), not with the Forbidden kind (403) that a
\* principal of the wrong role gets.
C2_AnonymousAdminIs401 ==
  (last.op \in AdminOps /\ last.role = "none") => last.status = 401

\* C3: on every authenticated route the request passes the gate iff a
\* principal is present, whatever its role; without one it is answered 401
\* and no handler runs for it.
C3_AuthGate ==
  /\ last.op \in AuthOps =>
       /\ (last.gate = "allowed") <=> (last.role \in {"USER", "ADMIN"})
       /\ last.role = "none" => (last.gate = "denied" /\ last.status = 401)
  /\ \A r \in Reqs : reqs[r].phase \in AuthPhases => reqs[r].role \in {"USER", "ADMIN"}

\* an ADMIN's avatar upload went through the gate and was answered 200
C3_Witness ==
  last.op = "PostAvatar" /\ last.role = "ADMIN" /\ last.gate = "allowed"
  /\ last.status = 200

\* a response of the gate, or of input validation
Rejected(resp) ==
  \/ resp.gate = "denied"
  \/ resp.status = 400 /\ resp.message \in {"Invalid video data", "No file uploaded"}

\* C4: a step that answers with a rejection of the gate or of input validation
\* leaves the videos and the users as they were.
C4_RejectionLeavesStore ==
  [][Rejected(last') => (videos' = videos /\ users' = users)]_vars

\* an anonymous detail read of an existing video was just refused
C4_Witness ==
  /\ last.op = "GetVideo" /\ last.role = "none" /\ last.gate = "denied"
  /\ HasVideo(last.id)

\* C5: no item of a list answered by GET /api/videos has a sourceUrl field.
C5_ListHidesSourceUrl ==
  (last.op = "GetVideos" /\ last.status = 200) =>
     \A i \in DOMAIN last.body : "sourceUrl" \notin DOMAIN last.body[i]

\* an ADMIN was just answered a list of two videos, one of them downloadable
C5_Witness ==
  /\ last.op = "GetVideos" /\ last.status = 200 /\ last.role = "ADMIN"
  /\ Len(last.body) = 2
  /\ \E i \in DOMAIN last.body : last.body[i].canDownload = T

\* C6: the stored view count of an existing video equals the number of detail
\* reads of it that were answered 200, however the reads interleave.
C6_NoLostView ==
  \A v \in VideoIds : HasVideo(v) => videos[v].views = detailOK[v]

\* two overlapping reads: the second answers with the count it read plus one
\* while the stored count already holds both views
C6_Witness ==
  /\ last.op = "GetVideo" /\ last.status = 200
  /\ HasVideo(last.id)
  /\ videos[last.id].views = 2
  /\ last.body.views = 1

\* C7: a step that answers a detail read with 200 increases the stored view
\* count of that video by exactly 1.
C7_DetailReadCountsOnce ==
  [][(last'.op = "GetVideo" /\ last'.status = 200) =>
       /\ HasVideo(last'.id)
       /\ last'.id \in DOMAIN videos'
       /\ videos'[last'.id].views = videos[last'.id].views + 1]_vars

\* C8: for an existing video the download route redirects to the stored
\* sourceUrl iff the stored canDownload is true and otherwise answers 403
\* DownloadNotPermitted, the same for every role.
C8_DownloadFollowsFlag ==
  [][(last'.op = "GetVideoDownload" /\ last'.gate = "allowed") =>
       IF ~HasVideo(last'.id) THEN last'.status = 404
       ELSE IF videos[last'.id].canDownload = T
       THEN /\ last'.status = 302
            /\ last'.body.location = videos[last'.id].sourceUrl
       ELSE /\ last'.status = 403
            /\ last'.message = "Download not allowed for this video"]_vars

\* an ADMIN was just refused the download of a video whose canDownload is false
C8_Witness ==
  /\ last.op = "GetVideoDownload" /\ last.role = "ADMIN" /\ last.status = 403
  /\ HasVideo(last.id) /\ videos[last.id].canDownload = F

\* C9: an update answered 200 sets each field of the update shape that the
\* body supplies to the supplied value, sets updatedAt to the time of the
\* update, and leaves every other field of the video, and every other video,
\* as it was.
C9_UpdateOnlySupplied ==
  [][(last'.op = "AdminPutVideo" /\ last'.status = 200) =>
       LET id == last'.id  body == last'.input IN
       /\ HasVideo(id) /\ DOMAIN videos' = DOMAIN videos
       /\ \A k \in DOMAIN videos[id] :
            videos'[id][k] =
              IF k = "updatedAt" THEN now'
              ELSE IF k \in (DOMAIN body) \cap InsertVideoKeys THEN body[k]
              ELSE videos[id][k]
       /\ videos'[id].updatedAt > videos[id].updatedAt
       /\ \A v \in (DOMAIN videos) \ {id} : videos'[v] = videos[v]]_vars

\* a title-only update was just answered: the description given at creation
\* is still there
C9_Witness ==
  /\ last.op = "AdminPutVideo" /\ last.status = 200
  /\ DOMAIN last.input = {"title"}
  /\ last.body.title = "New" /\ last.body.description = "D"
  /\ videos[last.id].description = "D"
  /\ last.body.updatedAt > last.body.createdAt

\* a step of PUT /api/admin/videos/:id
PutStep ==
  \/ last'.op = "AdminPutVideo"
  \/ \E r \in Reqs : /\ reqs[r].phase = "AdminPutVideo.updateVideo"
                     /\ reqs'[r].phase # "AdminPutVideo.updateVideo"
  \/ \E r \in Reqs : /\ reqs'[r].phase = "AdminPutVideo.updateVideo"
                     /\ reqs[r].phase # "AdminPutVideo.updateVideo"

\* C10: no step of an admin update, whatever its body, changes the view count
\* or the createdAt of a video.
C10_UpdateKeepsViewsAndCreatedAt ==
  [][PutStep =>
       \A v \in DOMAIN videos :
         /\ v \in DOMAIN videos'
         /\ videos'[v].views = videos[v].views
         /\ videos'[v].createdAt = videos[v].createdAt]_vars

\* an update whose body carried views, createdAt and id was just answered 200
\* for a video that had been viewed
C10_Witness ==
  /\ last.op = "AdminPutVideo" /\ last.status = 200
  /\ {"views", "createdAt", "id"} \subseteq DOMAIN last.input
  /\ last.body.views > 0
  /\ last.body.views # last.input.views
  /\ last.body.createdAt # last.input.createdAt

\* a body leaves the key out or gives it the empty string
MissingOrEmpty(body, k) == k \notin DOMAIN body \/ body[k] = ""

\* C11: an admin create whose body has title or sourceUrl missing or empty is
\* answered 400 "Invalid video data", and every video in the catalog has a
\* non-empty title and a non-empty sourceUrl.
C11_CreateRequiresNonEmpty ==
  /\ (/\ last.op = "AdminPostVideo" /\ last.gate = "allowed"
      /\ \/ MissingOrEmpty(last.input, "title")
         \/ MissingOrEmpty(last.input, "sourceUrl"))
       => (last.status = 400 /\ last.message = "Invalid video data")
  /\ \A v \in DOMAIN videos : videos[v].title # "" /\ videos[v].sourceUrl # ""

\* a step that answers an admin create with 201
Created == last'.op = "AdminPostVideo" /\ last'.status = 201

\* C12: the video an admin create produces is new and has view count 0, in
\* the store and in the answer, whatever views value the body carries.
C12_CreateStartsAtZeroViews ==
  [][Created =>
       /\ last'.id \notin DOMAIN videos
       /\ last'.id \in DOMAIN videos'
       /\ videos'[last'.id].views = 0
       /\ last'.body.views = 0]_vars

\* a create whose body carried views = 7 was just answered 201
C12_Witness ==
  /\ last.op = "AdminPostVideo" /\ last.status = 201
  /\ "views" \in DOMAIN last.input /\ last.input.views = 7
  /\ videos[last.id].views = 0

\* C13: a create that passed the gate and the validation is answered 201, and
\* each capability flag of the stored video is the one the body gives, or
\* canPlay = true, canShare = true, canDownload = false where it gives none.
C13_CreateFlagDefaults ==
  [][/\ \A r \in Reqs :
          (reqs[r].phase = "AdminPostVideo.createVideo" /\ reqs'[r] # reqs[r])
            => (Created /\ last'.role = "ADMIN" /\ last'.input = reqs[r].body)
     /\ Created =>
          \A k \in BooleanKeys :
            videos'[last'.id][k] =
              IF k \in DOMAIN last'.input THEN last'.input[k]
              ELSE IF k = "canDownload" THEN F ELSE T]_vars

\* a create whose body named no flag was just answered 201
C13_Witness ==
  /\ last.op = "AdminPostVideo" /\ last.status = 201 /\ last.role = "ADMIN"
  /\ (DOMAIN last.input) \cap BooleanKeys = {}
  /\ videos[last.id].canPlay = T /\ videos[last.id].canShare = T
  /\ videos[last.id].canDownload = F
  /\ last.body.canDownload = F

\* C14: for every video id at most one delete is ever answered 204; a delete
\* that finds the video removes it and is answered 204, a delete that does
\* not find it (issued later, or the loser of two racing deletes) is answered
\* 404 and changes nothing.
C14_DeleteSucceedsOnce ==
  [][/\ \A v \in VideoIds : deleted'[v] <= 1
     /\ (last'.op = "AdminDeleteVideo" /\ last'.gate = "allowed") =>
          IF HasVideo(last'.id)
          THEN /\ last'.status = 204
               /\ last'.id \notin DOMAIN videos'
               /\ \A v \in (DOMAIN videos) \ {last'.id} :
                    v \in DOMAIN videos' /\ videos'[v] = videos[v]
          ELSE /\ last'.status = 404 /\ last'.message = "Video not found"
               /\ videos' = videos]_vars

\* two deletes of one video race: the first was just answered 204 while the
\* second is still waiting for its delete statement
C14_Witness ==
  /\ last.op = "AdminDeleteVideo" /\ last.status = 204
  /\ deleted[last.id] = 1
  /\ \E r \in Reqs : /\ reqs[r].phase = "AdminDeleteVideo.deleteVideo"
                     /\ reqs[r].id = last.id

\* the answer to a registration whose email is taken
DuplicateEmail(resp) ==
  /\ resp.op = "PostRegister" /\ resp.status = 400
  /\ resp.message = "User with this email already exists"

\* the users that have an email
UsersWith(email) == {u \in DOMAIN users : users[u].email = email}

\* C15: a registration whose lookup finds the email taken is answered with
\* the duplicate-email rejection; a registration that is not answered 201
\* creates no user and binds no session; and no step of a registration
\* changes a field of a user that exists.
C15_DuplicateRegistrationRefused ==
  [][/\ \A r \in Reqs :
          (/\ reqs[r].phase = "Register.getUserByEmail" /\ reqs'[r] # reqs[r]
           /\ getUserByEmail(reqs[r].email) # NoUser)
            => (DuplicateEmail(last') /\ last'.input = reqs[r].body)
     /\ (last'.op = "PostRegister" /\ last'.status # 201)
          => (users' = users /\ sessions' = sessions)
     /\ \A u \in DOMAIN users : u \in DOMAIN users' /\ users'[u] = users[u]]_vars

\* a registration for a taken email was just refused: the user that has the
\* email keeps its hash and the requesting session is not bound to it
C15_Witness ==
  /\ DuplicateEmail(last)
  /\ \E u \in UsersWith(last.input.email) :
       /\ users[u].password = hashPassword("pw")
       /\ sessions[last.sess] # u

\* C16: no two users have the same email; after a registration was refused
\* for its email, by the lookup or by the insert, exactly one user has it.
C16_UniqueEmail ==
  /\ \A u1, u2 \in DOMAIN users :
       users[u1].email = users[u2].email => u1 = u2
  /\ (last.op = "PostRegister" /\ last.status \notin {201}
        /\ ~Falsy(Field(last.input, "email")) /\ ~Falsy(Field(last.input, "password")))
       => Cardinality(UsersWith(last.input.email)) = 1

\* two registrations for one email both passed the lookup; the insert of the
\* second was just rejected by the store and one user has the email
C16_Witness ==
  /\ last.op = "PostRegister" /\ last.status = 500
  /\ Cardinality(UsersWith(last.input.email)) = 1
  /\ Cardinality(DOMAIN users) = 1

\* C17: a registration refused for a duplicate email is answered with the
\* duplicate-email rejection, whether the lookup or the insert found it.
C17_DuplicateAlwaysConflict ==
  (/\ last.op = "PostRegister" /\ last.status # 201
   /\ ~Falsy(Field(last.input, "email")) /\ ~Falsy(Field(last.input, "password")))
    => DuplicateEmail(last)

\* C18: a registration answered 201 has created one new user, with the
\* email of the body and role USER whatever the body carries, the session of
\* the request is bound to that user, and requireAuth lets that session pass.
C18_RegistrationLogsIn ==
  [][(last'.op = "PostRegister" /\ last'.status = 201) =>
       \E u \in (DOMAIN users') \ (DOMAIN users) :
         /\ (DOMAIN users') = (DOMAIN users) \cup {u}
         /\ users'[u].email = last'.input.email
         /\ users'[u].role = "USER"
         /\ users'[u].password = hashPassword(last'.input.password)
         /\ last'.body.id = u /\ last'.body.role = "USER"
         /\ sessions'[last'.sess] = u
         /\ (Principal(last.sess) = u /\ requireAuth(Principal(last.sess)).next)']_vars

\* a registration whose body carried role = ADMIN was just answered 201 with
\* a USER, and the session reads as that user
C18_Witness ==
  /\ last.op = "PostRegister" /\ last.status = 201
  /\ Field(last.input, "role") = "ADMIN"
  /\ last.body.role = "USER"
  /\ users[last.body.id].role = "USER"
  /\ Principal(last.sess) = last.body.id

\* what the caller of a login sees
Observable(resp) == [status |-> resp.status, message |-> resp.message, body |-> resp.body]

\* C19: in every state any two logins that fail are answered alike, whether
\* their email belongs to a user or not, and every failed login that was
\* answered got 401 Unauthorized with no body.
C19_LoginFailuresAlike ==
  /\ \A e1, e2 \in LoginEmails, p1, p2 \in LoginPasswords :
       (verify(e1, p1) = NoUser /\ verify(e2, p2) = NoUser)
         => LoginAnswer(e1, p1) = LoginAnswer(e2, p2)
  /\ (last.op = "PostLogin" /\ last.gate = "denied")
       => Observable(last) = [status |-> 401, message |-> "Unauthorized", body |-> NoBody]

\* a login with the email of a user and a wrong password was just refused,
\* and the same password with nobody's email is refused too
C19_Witness ==
  /\ last.op = "PostLogin" /\ last.gate = "denied"
  /\ getUserByEmail(last.input.email) # NoUser
  /\ getUserByEmail("c@x") = NoUser
  /\ verify("c@x", last.input.password) = NoUser

\* C20: a login answered 200 binds the session of the request, and no other,
\* to the user that has the email and the password of the request; a login
\* that fails leaves every session as it was; neither changes a user or a
\* video.
C20_LoginBindsExactly ==
  [][last'.op = "PostLogin" =>
       /\ users' = users /\ videos' = videos
       /\ IF last'.status = 200
          THEN \E u \in DOMAIN users :
                 /\ users[u].email = last'.input.email
                 /\ comparePasswords(last'.input.password, users[u].password)
                 /\ sessions' = [sessions EXCEPT ![last'.sess] = u]
                 /\ last'.body.id = u
          ELSE /\ last'.gate = "denied"
               /\ sessions' = sessions]_vars

\* a login with a wrong password was just refused on a session that is bound
\* to a user: the session still has its user
C20_Witness ==
  /\ last.op = "PostLogin" /\ last.gate = "denied"
  /\ last.role = "ADMIN"
  /\ Principal(last.sess) # NoUser
  /\ users[Principal(last.sess)].role = "ADMIN"

\* the routes behind requireAuth or requireAdmin, and GET /api/user
GatedOps == AuthOps \cup AdminOps \cup {"GetUser"}

\* C21: a logout is answered 200 and leaves the session without a user,
\* whether it had one or not; a session gets a user only by a login answered
\* 200 or a registration answered 201 on it; and while a session has no user
\* no request on it passes requireAuth, requireAdmin or GET /api/user.
C21_LogoutEffective ==
  [][/\ last'.op = "PostLogout" =>
          /\ last'.status = 200
          /\ sessions' = [sessions EXCEPT ![last'.sess] = NoUser]
          /\ users' = users
     /\ \A s \in Sessions :
          (sessions'[s] # NoUser /\ sessions'[s] # sessions[s]) =>
            /\ last'.op \in {"PostLogin", "PostRegister"}
            /\ last'.status \in {200, 201} /\ last'.sess = s
     /\ \A r \in Reqs :
          (reqs[r].phase = "idle" /\ reqs'[r].phase \in AuthPhases \cup AdminPhases)
            => sessions[reqs'[r].sess] # NoUser
     /\ (last'.op \in GatedOps /\ sessions[last'.sess] = NoUser)
          => (last'.gate = "denied" /\ last'.status \in {401, 403})]_vars

\* a session that had no user was just logged out again and answered 200
C21_Witness ==
  /\ last.op = "PostLogout" /\ last.status = 200 /\ last.role = "none"
  /\ sessions[last.sess] = NoUser

\* the sum of the stored view counts of a set of videos
RECURSIVE SumViews(_)
SumViews(ids) ==
  IF ids = {} THEN 0
  ELSE LET v == CHOOSE w \in ids : TRUE IN videos[v].views + SumViews(ids \ {v})

\* C22: the stats answer has totalVideos equal to the number of videos in
\* the catalog and totalViews equal to the sum of their stored view counts.
C22_StatsCountCatalog ==
  (last.op = "AdminGetStats" /\ last.status = 200) =>
     /\ last.body.totalVideos = Cardinality(DOMAIN videos)
     /\ last.body.totalViews = SumViews(DOMAIN videos)

\* stats were just answered for a catalog of one video viewed twice, after
\* another video had been created and deleted
C22_Witness ==
  /\ last.op = "AdminGetStats" /\ last.status = 200
  /\ last.body.totalVideos = 1 /\ last.body.totalViews = 2
  /\ videoSeq = 2 /\ Cardinality(DOMAIN videos) = 1

\* C23: the stats answer has totalUsers equal to the number of users in the
\* store.
C23_StatsCountUsers ==
  (last.op = "AdminGetStats" /\ last.status = 200) =>
     last.body.totalUsers = Cardinality(DOMAIN users)

\* C24: no step of a route removes a user or changes the role of a user.
C24_RolesAndUsersKept ==
  [][\A u \in DOMAIN users :
       u \in DOMAIN users' /\ users'[u].role = users[u].role]_vars

\* an ADMIN's avatar upload was just answered 200 and stored: the user is
\* still an ADMIN
C24_Witness ==
  /\ last.op = "PostAvatar" /\ last.status = 200 /\ last.role = "ADMIN"
  /\ Principal(last.sess) # NoUser
  /\ users[Principal(last.sess)].role = "ADMIN"
  /\ users[Principal(last.sess)].avatarUrl = last.body.avatarUrl

\* C25: the stored view count of a video is never negative, and no step
\* lowers the view count of a video that exists before and after it.
C25_ViewsNeverDecrease ==
  [][/\ \A v \in DOMAIN videos' : videos'[v].views >= 0
     /\ \A v \in (DOMAIN videos) \cap (DOMAIN videos') :
          videos'[v].views >= videos[v].views]_vars

\* an update whose body carried views = 0 was just answered 200 for a video
\* that has been viewed twice, while another request is in flight
C25_Witness ==
  /\ last.op = "AdminPutVideo" /\ last.status = 200
  /\ last.input.views = 0
  /\ videos[last.id].views = 2
  /\ \E r \in Reqs : reqs[r].phase \in {"GetVideoDownload.getVideo",
                                         "GetVideos.getVideos"}

\* C26: the views value of a detail answer equals the stored view count of
\* the video right after the increment of that request.
C26_DetailAnswersStoredCount ==
  (last.op = "GetVideo" /\ last.status = 200 /\ HasVideo(last.id))
    => last.body.views = videos[last.id].views

\* a step that answers an update of video v with 200
Updated(v) == last'.op = "AdminPutVideo" /\ last'.status = 200 /\ last'.id = v

\* a step that answers a detail read of video v with 200
Viewed(v) == last'.op = "GetVideo" /\ last'.status = 200 /\ last'.id = v

\* C27: for a video that exists before and after a step: an update sets the
\* supplied fields and leaves the view count, a detail read adds one view and
\* leaves every other field, and nothing else changes the row; so the view
\* count is the number of detail reads answered, whatever updates ran between
\* their awaits.
C27_UpdateAndViewsIndependent ==
  [][\A v \in (DOMAIN videos) \cap (DOMAIN videos') :
       /\ Updated(v) =>
            /\ videos'[v].views = videos[v].views
            /\ \A k \in (DOMAIN last'.input) \cap InsertVideoKeys :
                 videos'[v][k] = last'.input[k]
       /\ Viewed(v) => videos'[v] = [videos[v] EXCEPT !.views = @ + 1]
       /\ (~Updated(v) /\ ~Viewed(v)) => videos'[v] = videos[v]
       /\ videos'[v].views = detailOK'[v]]_vars

\* an update was just answered 200 between the lookup and the increment of a
\* detail read that holds the row as it was before the update
C27_Witness ==
  /\ last.op = "AdminPutVideo" /\ last.status = 200
  /\ HasVideo(last.id) /\ videos[last.id].title = "New"
  /\ \E r \in Reqs : /\ reqs[r].phase = "GetVideo.incrementVideoViews"
                     /\ reqs[r].id = last.id
                     /\ reqs[r].video.title # "New"

\* the role the store has for the user of a session
StoredRole(s) == users[sessions[s]].role

\* C28: a request passes the gate of an admin route iff the role stored for
\* the session's user at that request is ADMIN, and a request that passes a
\* gate carries that stored role, whatever the role was when the session was
\* established.
C28_GateReadsStoredRole ==
  [][/\ \A r \in Reqs :
          (reqs[r].phase = "idle" /\ reqs'[r].phase \in AdminPhases \cup AuthPhases)
            => /\ reqs'[r].role = StoredRole(reqs'[r].sess)
               /\ reqs'[r].phase \in AdminPhases => StoredRole(reqs'[r].sess) = "ADMIN"
     /\ (last'.op \in AdminOps /\ last'.gate = "denied" /\ sessions[last'.sess] # NoUser)
          => StoredRole(last'.sess) # "ADMIN"]_vars

\* the session of a@x, established while a@x was a USER, was just answered
\* the stats after a@x was made an ADMIN, and the session of b@x is refused
\* now that b@x is a USER
C28_Witness ==
  /\ last.op = "AdminGetStats" /\ last.status = 200 /\ last.sess = "s1"
  /\ users[1].role = "ADMIN" /\ sessions["s1"] = 1
  /\ users[2].role = "USER"
  /\ ~requireAdmin(Principal("s2")).next

\* C29: a detail read answered 200 carries sourceUrl, equal to the stored
\* sourceUrl of the video, for every principal and whatever the flags of the
\* video are.
C29_DetailAlwaysHasSourceUrl ==
  [][(last'.op = "GetVideo" /\ last'.status = 200) =>
       /\ "sourceUrl" \in DOMAIN last'.body
       /\ last'.role \in {"USER", "ADMIN"}
       /\ HasVideo(last'.id) => last'.body.sourceUrl = videos[last'.id].sourceUrl]_vars

\* a USER was just answered the detail of a video that may be neither played
\* nor downloaded, sourceUrl included
C29_Witness ==
  /\ last.op = "GetVideo" /\ last.status = 200 /\ last.role = "USER"
  /\ last.body.canPlay = F /\ last.body.canDownload = F
  /\ videos[last.id].canPlay = F /\ videos[last.id].canDownload = F
  /\ last.body.sourceUrl = "http://x"

\* the fields of a user the identity endpoints answer with
UserJsonKeys == {"id", "email", "avatarUrl", "role", "createdAt"}

\* C30: an answer of POST /api/register, POST /api/login or GET /api/user
\* that carries a user has exactly the fields id, email, avatarUrl, role and
\* createdAt of that user, so never the password hash; GET /api/user answers
\* the user of its own session, and 401 with no body for a session without
\* one.
C30_IdentityAnswersHideHash ==
  (last.op \in {"PostRegister", "PostLogin", "GetUser"}) =>
     IF last.status \in {200, 201}
     THEN /\ DOMAIN last.body = UserJsonKeys
          /\ last.body.id \in DOMAIN users
          /\ \A k \in UserJsonKeys \ {"id"} : last.body[k] = users[last.body.id][k]
          /\ last.body.id = sessions[last.sess]
     ELSE /\ last.body = NoBody
          /\ last.op = "GetUser" => (last.status = 401 /\ sessions[last.sess] = NoUser)

\* GET /api/user was just answered for the account registered on that
\* session: the store has its hash, the answer does not
C30_Witness ==
  /\ last.op = "GetUser" /\ last.status = 200
  /\ last.body.email = "c@x"
  /\ users[last.body.id].password = hashPassword("pw")
  /\ "password" \notin DOMAIN last.body

=============================================================================
